---- MODULE Spec2Model ----
\* A model of racing_game.py: the RacingGame session (player car, obstacles,
\* lane markers, score, spawn timer, running/game_over flags) driven by the
\* main loop of RacingGame.run: handle_events, update, draw, clock.tick.
\*
\* Units.  Car.x is a Python float: lane centres are
\* track_left + lane_width * (lane + 0.5) with lane_width = span / lane_count.
\* The model keeps every car x exactly, as an integer number of 1/XScale
\* pixels (XScale = 2 * lane_count).  pygame.Rect stores C ints and truncates
\* a float it is given, which IntOf models.  Car.y, rect fields, marker
\* coordinates and the spawn timer are integers in pixels / frames.
\* score is a float that grows by 1.0 / fps per running frame; the model
\* counts it in ticks of 1/fps.
EXTENDS Integers, Sequences, FiniteSets, TLC

VARIABLES
    config,        \* self.config, the GameConfig given to the constructor
    player_car,    \* self.player_car
    obstacles,     \* self.obstacles, in list order
    lane_markers,  \* self.lane_markers, in list order
    score,         \* self.score, in ticks of 1/fps
    spawn_timer,   \* self.spawn_timer
    running,       \* self.running
    game_over,     \* self.game_over
    pc,            \* position of run(): "loop", "update" or "done"
    go_calls,      \* number of _game_over() invocations made by the last update()
    ticks          \* number of update() calls that ran in running state

vars == <<config, player_car, obstacles, lane_markers, score, spawn_timer,
          running, game_over, pc, go_calls, ticks>>

-----------------------------------------------------------------------------
\* Bounds of the model

\* height of the configured screen in the bounded specification
ShortHeight == 170
\* longest event list one poll returns
MaxEvents == 1
\* number of spawn delays drawn from the cooldown range, its ends included
DelayChoices == 2
\* running frames explored
MaxTicks == 135
\* running frames explored on the default 600-high screen
MaxTicksDefault == 300
\* number of lanes, from the left, the spawner's lane draw is taken from on
\* the default screen
LaneChoices == 2

-----------------------------------------------------------------------------
\* GameConfig defaults

DefaultWidth == 400
DefaultHeight == 600
DefaultLaneCount == 3
DefaultBorderX == 60
DefaultLaneMarkerLength == 48
DefaultLaneMarkerGap == 80
DefaultFps == 60

DefaultConfig ==
    [width |-> DefaultWidth, height |-> DefaultHeight,
     lane_count |-> DefaultLaneCount, border_x |-> DefaultBorderX,
     lane_marker_length |-> DefaultLaneMarkerLength,
     lane_marker_gap |-> DefaultLaneMarkerGap, fps |-> DefaultFps]

ShortConfig == [DefaultConfig EXCEPT !.height = ShortHeight]

-----------------------------------------------------------------------------
\* Track geometry and game constants set by RacingGame.__init__

track_left == config.border_x
track_right == config.width - config.border_x

\* number of model x units per pixel
XScale == 2 * config.lane_count

\* lane_width = (track_right - track_left) / lane_count, in x units
lane_width == 2 * (track_right - track_left)

car_speed == 5
road_scroll_speed == 3
obstacle_speed == 3
spawn_cooldown_lo == 60
spawn_cooldown_hi == 120

\* int(self.lane_width * 0.6): in IEEE-754 double arithmetic
\* (280 / 3) * 0.6 evaluates to 55.99999999999999, which int() truncates
car_width == 55
car_height == 40
obstacle_height == 50

\* int() / the C int conversion of pygame.Rect: truncation toward zero
IntOf(v) == IF v >= 0 THEN v \div XScale ELSE -((-v) \div XScale)

\* the lane centre computed without the half lane: the lane's left boundary
_lane_center_edge(lane) == XScale * track_left + lane_width * lane

\* _lane_center(lane) = track_left + lane_width * (lane + 0.5), in x units
_lane_center(lane) == XScale * track_left + (track_right - track_left) * (2 * lane + 1)

-----------------------------------------------------------------------------
\* class Car

\* Car.__init__
Car(x, y, width, height) ==
    [x |-> x, y |-> y, width |-> width, height |-> height,
     rect |-> [x |-> IntOf(x - XScale * (width \div 2)),
               y |-> y - height \div 2,
               w |-> width, h |-> height]]

\* Car.update(dx, dy), dx and dy in pixels
Car_update(car, dx, dy) ==
    LET nx == car.x + XScale * dx
        ny == car.y + dy
    IN [car EXCEPT !.x = nx, !.y = ny,
                   !.rect.x = IntOf(nx - XScale * (car.width \div 2)),
                   !.rect.y = ny - car.height \div 2]

\* pygame.Rect.colliderect
colliderect(a, b) ==
    /\ a.x < b.x + b.w
    /\ a.y < b.y + b.h
    /\ a.x + a.w > b.x
    /\ a.y + a.h > b.y

\* _check_collision testing the obstacle's centre point against the player's
\* rect (collidepoint) instead of the two rects against each other
_check_collision_centre(s, obstacle) ==
    LET cx == obstacle.rect.x + obstacle.rect.w \div 2
        cy == obstacle.rect.y + obstacle.rect.h \div 2
        r == s.player_car.rect
    IN /\ r.x <= cx /\ cx < r.x + r.w
       /\ r.y <= cy /\ cy < r.y + r.h

\* _check_collision(obstacle) on the session s
_check_collision(s, obstacle) == colliderect(s.player_car.rect, obstacle.rect)

-----------------------------------------------------------------------------
\* Inputs: events, keys, random draws

\* event kinds handle_events tells apart: pygame.QUIT, KEYDOWN of K_RETURN,
\* KEYDOWN of K_ESCAPE, and anything else
EventKinds == {"QUIT", "RETURN", "ESCAPE", "OTHER"}

\* the lists pygame.event.get() can return, up to MaxEvents long
EventLists == UNION {[1..n -> EventKinds] : n \in 0..MaxEvents}

\* the state of K_LEFT and K_RIGHT in pygame.key.get_pressed()
KeyStates == [left : BOOLEAN, right : BOOLEAN]
NoKeys == [left |-> FALSE, right |-> FALSE]

\* the values random.randint(*spawn_cooldown_range) is taken from
SpawnDelays ==
    {spawn_cooldown_lo
        + (i * (spawn_cooldown_hi - spawn_cooldown_lo)) \div (DelayChoices - 1) :
     i \in 0..(DelayChoices - 1)}

\* the values of random.randrange(lane_count)
Lanes == 0..(config.lane_count - 1)

-----------------------------------------------------------------------------
\* The session: the fields of RacingGame the loop reads and writes

Session ==
    [player_car |-> player_car, obstacles |-> obstacles,
     lane_markers |-> lane_markers, score |-> score,
     spawn_timer |-> spawn_timer, running |-> running,
     game_over |-> game_over, go_calls |-> go_calls]

\* the player car RacingGame.__init__ creates
InitPlayerCar == Car(_lane_center(1), config.height - 80, car_width, car_height)

\* number of markers _init_lane_markers places on one lane boundary:
\* len(range(-L, height + L, L + gap))
MarkerRows ==
    LET step == config.lane_marker_length + config.lane_marker_gap
    IN (config.height + 2 * config.lane_marker_length + step - 1) \div step

\* _init_lane_markers: boundary by boundary, top to bottom
_init_lane_markers ==
    [i \in 1..((config.lane_count - 1) * MarkerRows) |->
        LET lane == 1 + (i - 1) \div MarkerRows
            row == (i - 1) % MarkerRows
        IN <<IntOf(XScale * track_left + lane * lane_width),
             row * (config.lane_marker_length + config.lane_marker_gap)
                 - config.lane_marker_length>>]

\* _game_over
_game_over(s) == [s EXCEPT !.game_over = TRUE, !.go_calls = @ + 1]

\* _reset_game moving the player's centre and leaving its rect where it was
_reset_game_stale_rect(s, delay) ==
    [s EXCEPT !.game_over = FALSE,
              !.obstacles = <<>>,
              !.score = 0,
              !.spawn_timer = delay,
              !.player_car.x = _lane_center(1),
              !.player_car.y = config.height - 80]

\* _reset_game, with the delay _next_spawn_delay draws
_reset_game(s, delay) ==
    LET car_x == _lane_center(1)
        car_y == config.height - 80
    IN [s EXCEPT !.game_over = FALSE,
                 !.obstacles = <<>>,
                 !.score = 0,
                 !.spawn_timer = delay,
                 !.player_car.x = car_x,
                 !.player_car.y = car_y,
                 !.player_car.rect.x = IntOf(car_x - XScale * (s.player_car.width \div 2)),
                 !.player_car.rect.y = car_y - s.player_car.height \div 2]

\* handle_events restarting on Enter whether or not the game is over
handle_event_any_state(s, ev, delay) ==
    IF ev = "QUIT" THEN [s EXCEPT !.running = FALSE]
    ELSE IF ev = "RETURN" THEN _reset_game(s, delay)
    ELSE IF ev = "ESCAPE" THEN [s EXCEPT !.running = FALSE]
    ELSE s

\* handle_events restarting on any key pressed while the game is over
handle_event_any_key(s, ev, delay) ==
    IF ev = "QUIT" THEN [s EXCEPT !.running = FALSE]
    ELSE IF s.game_over THEN _reset_game(s, delay)
    ELSE IF ev = "ESCAPE" THEN [s EXCEPT !.running = FALSE]
    ELSE s

\* handle_events with the Escape branch nested under the game_over test
handle_event_escape_nested(s, ev, delay) ==
    IF ev = "QUIT" THEN [s EXCEPT !.running = FALSE]
    ELSE IF ev = "RETURN" /\ s.game_over THEN _reset_game(s, delay)
    ELSE IF ev = "ESCAPE" /\ s.game_over THEN [s EXCEPT !.running = FALSE]
    ELSE s

\* the body of the event loop of handle_events for one event
handle_event(s, ev, delay) ==
    IF ev = "QUIT" THEN [s EXCEPT !.running = FALSE]
    ELSE IF ev = "RETURN" /\ s.game_over THEN _reset_game(s, delay)
    ELSE IF ev = "ESCAPE" THEN [s EXCEPT !.running = FALSE]
    ELSE s

\* handle_events over the polled list evs, from its i-th event on
RECURSIVE handle_events_from(_, _, _, _)
handle_events_from(s, evs, i, delay) ==
    IF i > Len(evs) THEN s
    ELSE handle_events_from(handle_event(s, evs[i], delay), evs, i + 1, delay)

handle_events(s, evs, delay) == handle_events_from(s, evs, 1, delay)

\* _update_car without the track boundary test
_update_car_unchecked(s, k) ==
    LET dx == IF k.left /\ ~k.right THEN -car_speed
              ELSE IF k.right /\ ~k.left THEN car_speed
              ELSE 0
    IN IF dx # 0 THEN [s EXCEPT !.player_car = Car_update(@, dx, 0)] ELSE s

\* _update_car shortening a step that would leave the track so that the car
\* stops at the boundary
_update_car_clamped(s, k) ==
    LET dx == IF k.left /\ ~k.right THEN -car_speed
              ELSE IF k.right /\ ~k.left THEN car_speed
              ELSE 0
        x == s.player_car.x \div XScale
        half == s.player_car.width \div 2
        lo == track_left + half
        hi == track_right - half
        new_x == IF x + dx < lo THEN lo ELSE IF x + dx > hi THEN hi ELSE x + dx
    IN IF dx # 0 THEN [s EXCEPT !.player_car = Car_update(@, new_x - x, 0)] ELSE s

\* _update_car with the sampled key state k
_update_car(s, k) ==
    LET dx == IF k.left /\ ~k.right THEN -car_speed
              ELSE IF k.right /\ ~k.left THEN car_speed
              ELSE 0
        new_x == s.player_car.x + XScale * dx
        half == XScale * (s.player_car.width \div 2)
    IN IF dx # 0 /\ new_x - half >= XScale * track_left
                 /\ new_x + half <= XScale * track_right
       THEN [s EXCEPT !.player_car = Car_update(@, dx, 0)]
       ELSE s

\* the marker step wrapping a marker by a whole screen instead of putting it
\* back at -lane_marker_length
MarkerStep_wrapped(y) ==
    IF y + road_scroll_speed > config.height
    THEN y + road_scroll_speed - (config.height + config.lane_marker_length)
    ELSE y + road_scroll_speed

\* the new y of one marker in _update_lane_markers
MarkerStep(y) ==
    IF y + road_scroll_speed > config.height
    THEN -config.lane_marker_length
    ELSE y + road_scroll_speed

\* _update_lane_markers
_update_lane_markers(s) ==
    [s EXCEPT !.lane_markers =
        [i \in DOMAIN @ |-> <<@[i][1], MarkerStep(@[i][2])>>]]

\* the removal loop left out: every collected obstacle stays in the list
RemoveAt_none(seq, rm) == seq

\* the obstacle at index i of seq removed from every index in rm
RemoveAt(seq, rm) ==
    LET keep == {i \in DOMAIN seq : i \notin rm}
        F[i \in 0..Len(seq)] ==
            IF i = 0 THEN <<>>
            ELSE IF i \in keep THEN Append(F[i - 1], seq[i]) ELSE F[i - 1]
    IN F[Len(seq)]

\* the obstacle loop calling _game_over without returning: it goes on to the
\* obstacles behind the one that collided, and to the removal
RECURSIVE ObstacleLoop_no_return(_, _, _)
ObstacleLoop_no_return(s, i, rm) ==
    IF i > Len(s.obstacles)
    THEN [s EXCEPT !.obstacles = RemoveAt(@, rm)]
    ELSE LET moved == Car_update(s.obstacles[i], 0, obstacle_speed)
             t == [s EXCEPT !.obstacles[i] = moved]
         IN IF moved.y > config.height
            THEN ObstacleLoop_no_return(t, i + 1, rm \cup {i})
            ELSE IF _check_collision(t, moved)
            THEN ObstacleLoop_no_return(_game_over(t), i + 1, rm)
            ELSE ObstacleLoop_no_return(t, i + 1, rm)

\* the for loop of _update_obstacles from index i on, rm the indices
\* collected in obstacles_to_remove so far
RECURSIVE ObstacleLoop(_, _, _)
ObstacleLoop(s, i, rm) ==
    IF i > Len(s.obstacles)
    THEN [s EXCEPT !.obstacles = RemoveAt(@, rm)]
    ELSE LET moved == Car_update(s.obstacles[i], 0, obstacle_speed)
             t == [s EXCEPT !.obstacles[i] = moved]
         IN IF moved.y > config.height
            THEN ObstacleLoop(t, i + 1, rm \cup {i})
            ELSE IF _check_collision(t, moved)
            THEN _game_over(t)
            ELSE ObstacleLoop(t, i + 1, rm)

\* _update_obstacles
_update_obstacles(s) == ObstacleLoop(s, 1, {})

\* the spawn test firing only once the decremented timer is below zero
SpawnFires_late(s) == s.spawn_timer - 1 < 0

\* whether _maybe_spawn_obstacle creates an obstacle when called on s
SpawnFires(s) == s.spawn_timer - 1 <= 0

\* _maybe_spawn_obstacle creating the obstacle without drawing a new delay:
\* the timer stays where the decrement left it
_maybe_spawn_obstacle_no_rearm(s, lane, delay) ==
    IF SpawnFires(s)
    THEN [s EXCEPT !.obstacles =
                       Append(@, Car(_lane_center(lane), -obstacle_height,
                                        car_width, obstacle_height)),
                   !.spawn_timer = @ - 1]
    ELSE [s EXCEPT !.spawn_timer = @ - 1]

\* _maybe_spawn_obstacle decrementing the timer after it has been redrawn
_maybe_spawn_obstacle_short_delay(s, lane, delay) ==
    IF SpawnFires(s)
    THEN [s EXCEPT !.obstacles =
                       Append(@, Car(_lane_center(lane), -obstacle_height,
                                        car_width, obstacle_height)),
                   !.spawn_timer = delay - 1]
    ELSE [s EXCEPT !.spawn_timer = @ - 1]

\* _maybe_spawn_obstacle with the lane and the delay random draws
_maybe_spawn_obstacle(s, lane, delay) ==
    IF SpawnFires(s)
    THEN [s EXCEPT !.obstacles =
                       Append(@, Car(_lane_center(lane), -obstacle_height,
                                        car_width, obstacle_height)),
                   !.spawn_timer = delay]
    ELSE [s EXCEPT !.spawn_timer = @ - 1]

\* _update_score: one tick of 1.0 / fps
_update_score(s) == [s EXCEPT !.score = @ + 1]

\* update returning as soon as _update_obstacles has set game_over
update_halts(s, k, lane, delay) ==
    IF ~s.game_over
    THEN LET t == _update_obstacles(_update_lane_markers(_update_car(s, k)))
         IN IF t.game_over THEN t
            ELSE _update_score(_maybe_spawn_obstacle(t, lane, delay))
    ELSE s

\* update sampling the keys and moving the player before it tests game_over
update_steers_when_over(s, k, lane, delay) ==
    IF ~s.game_over
    THEN _update_score(_maybe_spawn_obstacle(
             _update_obstacles(_update_lane_markers(_update_car(s, k))), lane, delay))
    ELSE _update_car(s, k)

\* update
update(s, k, lane, delay) ==
    IF ~s.game_over
    THEN _update_score(_maybe_spawn_obstacle(
             _update_obstacles(_update_lane_markers(_update_car(s, k))), lane, delay))
    ELSE s

-----------------------------------------------------------------------------
\* The state machine of RacingGame.run

\* the state RacingGame.__init__ leaves, for the configuration cfg
InitWith(cfg) ==
    /\ config = cfg
    /\ player_car = InitPlayerCar
    /\ obstacles = <<>>
    /\ lane_markers = _init_lane_markers
    /\ score = 0
    /\ spawn_timer \in SpawnDelays
    /\ running = TRUE
    /\ game_over = FALSE
    /\ pc = "loop"
    /\ go_calls = 0
    /\ ticks = 0

Init == InitWith(ShortConfig)

\* the session fields of the next state are those of s
Becomes(s) ==
    /\ player_car' = s.player_car
    /\ obstacles' = s.obstacles
    /\ lane_markers' = s.lane_markers
    /\ score' = s.score
    /\ spawn_timer' = s.spawn_timer
    /\ running' = s.running
    /\ game_over' = s.game_over
    /\ go_calls' = s.go_calls

\* whether handle_events on evs calls _reset_game, and so draws a delay
ResetDraws(evs) == game_over /\ \E i \in DOMAIN evs : evs[i] = "RETURN"

\* whether this frame's update calls _maybe_spawn_obstacle and it draws
SpawnDraws == ~game_over /\ SpawnFires(Session)

\* the number of running frames explored for the configured screen
FrameLimit == IF config.height = DefaultHeight THEN MaxTicksDefault ELSE MaxTicks

\* while self.running: self.handle_events(), pygame.event.get() returning evs
HandleEventsOn(evs, delay) ==
    /\ pc = "loop"
    /\ running
    /\ ticks < FrameLimit
    /\ Becomes(handle_events(Session, evs, delay))
    /\ pc' = "update"
    /\ UNCHANGED <<config, ticks>>

\* random is consulted only when _reset_game runs
HandleEventsStep ==
    \E evs \in EventLists :
       \E delay \in IF ResetDraws(evs) THEN SpawnDelays ELSE {spawn_cooldown_lo} :
          HandleEventsOn(evs, delay)

\* self.update(); self.draw(); self.clock.tick(fps), pygame.key.get_pressed()
\* returning k: draw and tick change no field of the session
UpdateOn(k, lane, delay) ==
    /\ pc = "update"
    /\ Becomes(update([Session EXCEPT !.go_calls = 0], k, lane, delay))
    /\ ticks' = IF game_over THEN ticks ELSE ticks + 1
    /\ pc' = "loop"
    /\ UNCHANGED config

\* random is consulted only when _maybe_spawn_obstacle creates an obstacle
UpdateStep ==
    \E k \in KeyStates :
       \E lane \in IF SpawnDraws THEN Lanes ELSE {0} :
          \E delay \in IF SpawnDraws THEN SpawnDelays ELSE {spawn_cooldown_lo} :
             UpdateOn(k, lane, delay)

\* the loop condition fails: pygame.quit(); sys.exit()
ExitStep ==
    /\ pc = "loop"
    /\ ~running
    /\ pc' = "done"
    /\ UNCHANGED <<config, player_car, obstacles, lane_markers, score, spawn_timer,
                   running, game_over, go_calls, ticks>>

Next == HandleEventsStep \/ UpdateStep \/ ExitStep

Spec == Init /\ [][Next]_vars

\* The default configuration, played without a quit input: the polled lists
\* hold no window close and no Escape, and the lane is drawn from the first
\* LaneChoices lanes

InitDefault == InitWith(DefaultConfig)

PlayLists ==
    {evs \in EventLists : \A i \in DOMAIN evs : evs[i] \notin {"QUIT", "ESCAPE"}}

DrawnLanes == {lane \in Lanes : lane < LaneChoices}

HandleEventsPlay ==
    \E evs \in PlayLists :
       \E delay \in IF ResetDraws(evs) THEN SpawnDelays ELSE {spawn_cooldown_lo} :
          HandleEventsOn(evs, delay)

UpdatePlay ==
    \E k \in KeyStates :
       \E lane \in IF SpawnDraws THEN DrawnLanes ELSE {0} :
          \E delay \in IF SpawnDraws THEN SpawnDelays ELSE {spawn_cooldown_lo} :
             UpdateOn(k, lane, delay)

NextPlay == HandleEventsPlay \/ UpdatePlay

SpecDefault == InitDefault /\ [][NextPlay]_vars

\* The same play on the short screen with no direction key held, and with
\* the scheduling of the loop: a frame that can start does start, and the
\* update of a started frame runs

UpdateStraight ==
    \E lane \in IF SpawnDraws THEN DrawnLanes ELSE {0} :
       \E delay \in IF SpawnDraws THEN SpawnDelays ELSE {spawn_cooldown_lo} :
          UpdateOn(NoKeys, lane, delay)

NextLive == HandleEventsPlay \/ UpdateStraight

SpecLive ==
    Init /\ [][NextLive]_vars /\ WF_vars(HandleEventsPlay) /\ WF_vars(UpdateStraight)

-----------------------------------------------------------------------------
\* Vocabulary of the properties

\* the list evs holds an event of kind kind
Has(evs, kind) == \E i \in DOMAIN evs : evs[i] = kind

\* the list evs holds a quit input: window close or Escape
HasQuit(evs) == Has(evs, "QUIT") \/ Has(evs, "ESCAPE")

\* the polled lists that hold an Enter key event
ReturnLists == {evs \in EventLists : Has(evs, "RETURN")}

\* the session when this frame's _update_obstacles starts, keys k sampled
BeforeObstacles(k) == _update_lane_markers(_update_car(Session, k))

\* the session at the moment this frame's _update_obstacles returns
AfterObstacles(k) == _update_obstacles(BeforeObstacles(k))

\* after the player's move and one downward step of every obstacle of the
\* list, the bounding box of some obstacle overlaps the player's
OverlapAfterStep(k) ==
    \E i \in DOMAIN obstacles :
       colliderect(_update_car(Session, k).player_car.rect,
                   Car_update(obstacles[i], 0, obstacle_speed).rect)

\* this step is the update of a frame in which pygame.key.get_pressed()
\* returned k: the player car is where _update_car puts it under k
KeysSampled(k) ==
    /\ pc = "update"
    /\ pc' = "loop"
    /\ player_car' = IF game_over THEN player_car ELSE _update_car(Session, k).player_car

\* some frame of this session has been restarted: the score fell behind the
\* count of running updates
Restarted == score < ticks

-----------------------------------------------------------------------------
\* C1: game_over turns true only in the update of a frame whose obstacle step
\* finds an obstacle overlapping the player, and turns false only in a
\* handle_events that handles Enter while game_over is true: no other step
\* changes game_over, and handle_events of a list without Enter leaves a game
\* that is over as it is.
C1_GameOverTransitions ==
    /\ []((pc = "loop" /\ running /\ game_over) =>
            \A evs \in EventLists \ ReturnLists : \A delay \in SpawnDelays :
               handle_events(Session, evs, delay).game_over)
    /\ [][/\ (~game_over /\ game_over') =>
                \E k \in KeyStates : KeysSampled(k) /\ OverlapAfterStep(k)
          /\ (game_over /\ ~game_over') =>
                \E evs \in ReturnLists : \E delay \in SpawnDelays :
                   HandleEventsOn(evs, delay)]_vars

\* a collision ended a session and Enter restarted it
C1_Witness == Restarted /\ ~game_over /\ pc = "update"

\* C3: an update that starts in running state adds exactly one tick of 1/fps
\* to the score, an update that starts in game_over leaves it alone, and the
\* score only ever drops in a handle_events that restarts the game.
C3_ScoreAccounting ==
    [][/\ pc = "update" => score' = IF game_over THEN score ELSE score + 1
       /\ score' < score =>
             /\ game_over /\ ~game_over' /\ score' = 0
             /\ \E evs \in EventLists : \E delay \in SpawnDelays :
                   Has(evs, "RETURN") /\ HandleEventsOn(evs, delay)]_vars

\* the update that detected a collision has still counted its tick
C3_Witness == pc = "loop" /\ game_over /\ go_calls = 1 /\ score = ticks /\ score > 0

\* C2 (as claimed): the update that detects a collision ends with the score,
\* the spawn timer and the obstacle list exactly as they were when
\* _update_obstacles returned, and they keep those values while game_over lasts.
C2_FrozenAtCollision ==
    [][/\ \A k \in KeyStates :
             (KeysSampled(k) /\ ~game_over /\ AfterObstacles(k).game_over) =>
                /\ score' = AfterObstacles(k).score
                /\ spawn_timer' = AfterObstacles(k).spawn_timer
                /\ obstacles' = AfterObstacles(k).obstacles
       /\ (game_over /\ game_over') => UNCHANGED <<score, spawn_timer, obstacles>>]_vars

\* C4: a handle_events that handles Enter in game_over leaves the obstacle list
\* empty, the score 0, game_over false, the spawn timer inside [60, 120] and
\* the player centred on the middle lane at y = height - 80, its rect derived
\* from that centre.
C4_RestartPostcondition ==
    [][\A evs \in EventLists : \A delay \in SpawnDelays :
          (game_over /\ Has(evs, "RETURN") /\ HandleEventsOn(evs, delay)) =>
             /\ obstacles' = <<>>
             /\ score' = 0
             /\ ~game_over'
             /\ spawn_timer' \in spawn_cooldown_lo..spawn_cooldown_hi
             /\ 2 * player_car'.x = 2 * XScale * track_left + 3 * lane_width
             /\ player_car'.y = config.height - 80
             /\ player_car'.rect.x =
                   IntOf(player_car'.x - XScale * (player_car'.width \div 2))
             /\ player_car'.rect.y = player_car'.y - player_car'.height \div 2
             /\ player_car'.rect.w = player_car'.width
             /\ player_car'.rect.h = player_car'.height]_vars

\* the game has just been restarted
C4_Witness == pc = "update" /\ ~game_over /\ score = 0 /\ ticks > 0 /\ obstacles = <<>>

\* C5: the player's bounding box lies inside the track: track_left <= left
\* edge and left edge + width <= track_right.
C5_PlayerInsideTrack ==
    /\ track_left <= player_car.rect.x
    /\ player_car.rect.x + player_car.rect.w <= track_right

\* after a restart the player stands so far right that one more step would
\* leave the track
C5_Witness ==
    /\ Restarted
    /\ player_car.rect.x + player_car.rect.w + car_speed > track_right

\* the step in pixels C6 expects under the key state k: a full car_speed step
\* in the direction of the one key held if the bounding box stays inside the
\* track at the new centre, and no step otherwise
ExpectedStep(k) ==
    LET dir == IF k.left /\ ~k.right THEN -1
               ELSE IF k.right /\ ~k.left THEN 1
               ELSE 0
        left_edge == IntOf(player_car.x + XScale * dir * car_speed
                           - XScale * (player_car.width \div 2))
    IN IF /\ track_left <= left_edge
          /\ left_edge + player_car.width <= track_right
       THEN dir * car_speed
       ELSE 0

\* C6: in a running update the player's x changes by the full step of
\* car_speed toward the one key held, or not at all when no key or both keys
\* are held or the step would leave the track; the player's y never changes.
C6_MovementStep ==
    [][/\ player_car'.y = player_car.y
       /\ \A k \in KeyStates :
             (KeysSampled(k) /\ ~game_over) =>
                player_car'.x = player_car.x + XScale * ExpectedStep(k)]_vars

\* a running update is about to sample "left only" with the player at the left
\* boundary, and leaves the car where it is
C6_Witness ==
    /\ pc = "update"
    /\ ~game_over
    /\ player_car.rect.x - car_speed < track_left
    /\ ENABLED (KeysSampled([left |-> TRUE, right |-> FALSE]) /\ player_car' = player_car)

\* C7: a running update whose player move and obstacle step leave some
\* obstacle overlapping the player ends in game_over with _game_over called
\* exactly once, and one without such an overlap calls it not at all; so
\* whenever game_over is false no obstacle of the list overlaps the player.
C7_CollisionDetected ==
    /\ [](~game_over =>
            \A i \in DOMAIN obstacles :
               ~colliderect(player_car.rect, obstacles[i].rect))
    /\ [][\A k \in KeyStates :
             (KeysSampled(k) /\ ~game_over) =>
                /\ game_over' = OverlapAfterStep(k)
                /\ go_calls' = IF OverlapAfterStep(k) THEN 1 ELSE 0]_vars

\* an update has just detected a collision
C7_Witness ==
    /\ pc = "loop" /\ game_over /\ go_calls = 1
    /\ \E i \in DOMAIN obstacles : colliderect(player_car.rect, obstacles[i].rect)

\* the top edge of the obstacle o has not passed the bottom of the screen
TopEdgeOnScreen(o) == ~(o.rect.y > config.height)

\* C8 (as claimed): in a running update without a collision the obstacles
\* that stay in the list are exactly those whose top edge, after the downward
\* step, has not passed the bottom of the screen (followed by the obstacle
\* spawned in this update, if any).
C8_RemovedWhenTopEdgePassed ==
    [][(pc = "update" /\ ~game_over /\ ~game_over') =>
          LET moved == [i \in DOMAIN obstacles |->
                           Car_update(obstacles[i], 0, obstacle_speed)]
              kept == SelectSeq(moved, TopEdgeOnScreen)
          IN /\ Len(obstacles') >= Len(kept)
             /\ Len(obstacles') <= Len(kept) + 1
             /\ SubSeq(obstacles', 1, Len(kept)) = kept]_vars

\* C9: a handle_events that handles Enter while game_over is false changes
\* none of score, obstacle list, spawn timer, player car and game_over: a step
\* from the loop test of a running session that changes one of them is no
\* handle_events of a list holding Enter.
C9_RestartKeyInactive ==
    [][(pc = "loop" /\ ~game_over) =>
          \/ UNCHANGED <<score, obstacles, spawn_timer, player_car, game_over>>
          \/ \A evs \in ReturnLists : \A delay \in SpawnDelays :
                ~HandleEventsOn(evs, delay)]_vars

\* Enter can be handled in a running session that has an obstacle, a score
\* and a player away from the middle lane
C9_Witness ==
    /\ ~game_over /\ score > 0 /\ obstacles # <<>>
    /\ player_car.x # _lane_center(1)
    /\ ENABLED HandleEventsOn(<<"RETURN">>, spawn_cooldown_lo)

\* C10: from any state in which a frame can start, handle_events leaves
\* running cleared if the polled list holds a quit input and set if it holds
\* none; the update of the frame keeps running as it is and returns to the
\* loop test; with running cleared the only step from the loop test is the
\* exit, so no further frame starts; and the loop is left only with running
\* cleared.
C10_Termination ==
    /\ []((pc = "loop" /\ running) =>
            \A evs \in EventLists :
               \A delay \in IF ResetDraws(evs) THEN SpawnDelays ELSE {spawn_cooldown_lo} :
                  handle_events(Session, evs, delay).running = ~HasQuit(evs))
    /\ []((pc = "loop" /\ ~running) => ~ENABLED HandleEventsStep)
    /\ []((pc = "done") => ~running /\ ~ENABLED Next)
    /\ [][/\ pc = "update" => (running' = running /\ pc' = "loop")
          /\ (pc = "loop" /\ ~running) => pc' = "done"
          /\ (pc = "loop" /\ running) => pc' = "update"
          /\ pc' = "done" => (pc = "loop" /\ ~running)]_vars

\* the loop has exited from the game-over state
C10_Witness == pc = "done" /\ game_over

\* C11: once an update has run, every lane marker's y lies in
\* [-lane_marker_length, height]; a running update moves every marker down by
\* road_scroll_speed, or to exactly -lane_marker_length when that step would
\* pass the screen height; no other step moves a marker; no step changes a
\* marker's x; and the list always has as many markers as _init_lane_markers
\* made.
C11_LaneMarkerField ==
    /\ [](/\ Len(lane_markers) = (config.lane_count - 1) * MarkerRows
          /\ ticks > 0 =>
                \A i \in DOMAIN lane_markers :
                   /\ -config.lane_marker_length <= lane_markers[i][2]
                   /\ lane_markers[i][2] <= config.height)
    /\ [][/\ DOMAIN lane_markers' = DOMAIN lane_markers
          /\ \A i \in DOMAIN lane_markers :
                /\ lane_markers'[i][1] = lane_markers[i][1]
                /\ lane_markers'[i][2] =
                      IF pc = "update" /\ ~game_over
                      THEN IF lane_markers[i][2] + road_scroll_speed > config.height
                           THEN -config.lane_marker_length
                           ELSE lane_markers[i][2] + road_scroll_speed
                      ELSE lane_markers[i][2]]_vars

\* a marker that started below the top row has scrolled past the bottom of the
\* screen and stands at -lane_marker_length
C11_Witness ==
    /\ ticks > 0
    /\ \E i \in DOMAIN lane_markers :
          /\ _init_lane_markers[i][2] > 0
          /\ _init_lane_markers[i][2] <= config.height
          /\ lane_markers[i][2] = -config.lane_marker_length

\* the obstacles of this state, as they are and as one downward step leaves
\* them: what an update can keep in the list without creating anything
OldObstacles ==
    {obstacles[i] : i \in DOMAIN obstacles}
       \cup {Car_update(obstacles[i], 0, obstacle_speed) : i \in DOMAIN obstacles}

\* C12: a running update leaves the spawn timer one lower, unless that is
\* zero: then, and only then, the update creates an obstacle, exactly one, at
\* the end of the list, and redraws the timer from [60, 120]; no update in
\* game_over touches the timer or the list; every state has
\* 1 <= spawn_timer <= 120; and when a spawn follows another without a restart
\* in between, the earlier obstacle, if still in the list, has been stepped
\* between 60 and 120 times.
C12_SpawnCountdown ==
    /\ [](1 <= spawn_timer /\ spawn_timer <= spawn_cooldown_hi)
    /\ [][pc = "update" =>
            LET n == Len(obstacles')
            IN IF game_over THEN spawn_timer' = spawn_timer /\ obstacles' = obstacles
               ELSE IF spawn_timer - 1 = 0
               THEN /\ spawn_timer' \in spawn_cooldown_lo..spawn_cooldown_hi
                    /\ n >= 1
                    /\ obstacles'[n] \notin OldObstacles
                    /\ obstacles'[n].y = -obstacle_height
                    /\ \A j \in 1..(n - 1) : obstacles'[j] \in OldObstacles
                    /\ (n >= 2 /\ ~game_over') =>
                          LET prev == obstacles'[n - 1]
                              steps == (prev.y + obstacle_height) \div obstacle_speed
                          IN /\ prev.y = steps * obstacle_speed - obstacle_height
                             /\ spawn_cooldown_lo <= steps
                             /\ steps <= spawn_cooldown_hi
               ELSE /\ spawn_timer' = spawn_timer - 1
                    /\ \A j \in 1..n : obstacles'[j] \in OldObstacles]_vars

\* an update has just created an obstacle while the one created before it is
\* still in the list
C12_Witness ==
    /\ pc = "loop" /\ ~game_over
    /\ Len(obstacles) >= 2
    /\ obstacles[Len(obstacles)].y = -obstacle_height

\* the left boundary of lane number lane, in x units
LaneLeft(lane) == XScale * track_left + lane * lane_width

\* the centre x (in x units) is midway between the boundaries of some lane
\* with index in [0, lane_count)
OnLaneCentre(x) ==
    \E lane \in 0..(config.lane_count - 1) :
       2 * x = LaneLeft(lane) + LaneLeft(lane + 1)

\* the number of obstacles an update step has put at the end of the list: one
\* if the last obstacle stands at the creation height and was not in the list
\* before
CreatedCount ==
    LET n == Len(obstacles')
    IN IF n >= 1 /\ obstacles'[n].y = -obstacle_height
             /\ obstacles'[n] \notin OldObstacles
       THEN 1 ELSE 0

\* C13: an obstacle is created centred on the centre of a lane with index in
\* [0, lane_count), with its bottom edge above y = 0; afterwards each step
\* keeps the obstacles of the list in order, drops some from the front or all
\* of them, leaves every x as it was, and moves an obstacle it keeps down by
\* exactly obstacle_speed in a running update (or not at all, in the update
\* that detects a collision) and nowhere in any other step.
C13_SpawnPlacement ==
    /\ [](\A i \in DOMAIN obstacles :
             /\ OnLaneCentre(obstacles[i].x)
             /\ obstacles[i].y >= -obstacle_height
             /\ obstacles[i].y = -obstacle_height =>
                   obstacles[i].rect.y + obstacles[i].rect.h < 0)
    /\ [][LET n == Len(obstacles')
              old == n - CreatedCount
              r == Len(obstacles) - old
          IN \/ obstacles' = <<>>
             \/ /\ r >= 0
                /\ CreatedCount = 1 =>
                      /\ OnLaneCentre(obstacles'[n].x)
                      /\ obstacles'[n].rect.y + obstacles'[n].rect.h < 0
                /\ \A j \in 1..old :
                      /\ obstacles'[j].x = obstacles[j + r].x
                      /\ IF pc = "update" /\ ~game_over
                         THEN \/ obstacles'[j].y = obstacles[j + r].y + obstacle_speed
                              \/ /\ game_over'
                                 /\ obstacles'[j].y = obstacles[j + r].y
                         ELSE obstacles'[j].y = obstacles[j + r].y]_vars

\* an obstacle created in the left lane has moved down onto the screen and a
\* second one has just been created
C13_Witness ==
    /\ pc = "loop" /\ ~game_over
    /\ Len(obstacles) >= 2
    /\ 2 * obstacles[1].x = LaneLeft(0) + LaneLeft(1)
    /\ obstacles[1].y > 0
    /\ obstacles[Len(obstacles)].y = -obstacle_height

\* C18: on the default 600-high screen the obstacle list never holds more
\* than 4 obstacles, at the end of the frame that detects a collision and in
\* game_over as at any other time.
C18_BoundedPopulation == Len(obstacles) <= 4

\* the update that detected a collision has also created an obstacle, the
\* fourth of the list
C18_Witness ==
    /\ pc = "loop" /\ game_over /\ go_calls = 1
    /\ Len(obstacles) = 4
    /\ obstacles[4].y = -obstacle_height

\* the fields a frozen game keeps: player, obstacles, score, spawn timer and
\* lane markers of the session s
Frozen(s) == <<s.player_car, s.obstacles, s.score, s.spawn_timer, s.lane_markers>>

\* C14: from a state in which a frame starts with game_over true, handle_events
\* of any list without Enter followed by update under any keys leaves player,
\* obstacles, score, spawn timer and lane markers as they were and the game
\* over; and no step taken in game_over that leaves the game over changes any
\* of them.
C14_GameOverFrozen ==
    /\ []((pc = "loop" /\ running /\ game_over) =>
            \A evs \in EventLists \ ReturnLists : \A k \in KeyStates :
               \A lane \in Lanes : \A delay \in SpawnDelays :
                  LET s == update([handle_events(Session, evs, delay)
                                      EXCEPT !.go_calls = 0], k, lane, delay)
                  IN Frozen(s) = Frozen(Session) /\ s.game_over)
    /\ [][(game_over /\ game_over') =>
             UNCHANGED <<player_car, obstacles, score, spawn_timer, lane_markers>>]_vars

\* a whole frame has passed in game_over: the last update called _game_over
\* not at all and the game is still over
C14_Witness == pc = "loop" /\ running /\ game_over /\ go_calls = 0 /\ obstacles # <<>>

\* the indices of the obstacles whose bounding box, one step further down,
\* overlaps the player's after its move under the keys k
Hits(k) ==
    {i \in DOMAIN obstacles :
        colliderect(_update_car(Session, k).player_car.rect,
                    Car_update(obstacles[i], 0, obstacle_speed).rect)}

\* C15: the update that detects a collision leaves every obstacle up to and
\* including the first that overlaps the player one step further down, every
\* obstacle behind it where it was when the frame started, and removes none:
\* the list keeps all its obstacles in order (a newly created one may follow).
C15_CollisionShortCircuit ==
    [][\A k \in KeyStates :
          (KeysSampled(k) /\ ~game_over /\ game_over') =>
             /\ Hits(k) # {}
             /\ LET first == CHOOSE i \in Hits(k) : \A j \in Hits(k) : i <= j
                IN /\ Len(obstacles') >= Len(obstacles)
                   /\ Len(obstacles') <= Len(obstacles) + 1
                   /\ \A i \in DOMAIN obstacles :
                         obstacles'[i] =
                            IF i <= first
                            THEN Car_update(obstacles[i], 0, obstacle_speed)
                            ELSE obstacles[i]]_vars

\* a collision was detected on the first obstacle while the second, created in
\* the frame before, stands unmoved behind it
C15_Witness ==
    /\ pc = "loop" /\ game_over /\ go_calls = 1
    /\ Len(obstacles) = 2
    /\ obstacles[2].y = -obstacle_height
    /\ spawn_timer + 1 \in SpawnDelays

\* the number of downward steps after which the obstacle o has passed the
\* bottom edge
StepsToLeave(o) == (config.height - o.y) \div obstacle_speed + 1

\* the obstacle o is on its last stretch: closer to the bottom edge than the
\* shortest spawn delay lets the obstacle behind it be
LastStretch(o) == StepsToLeave(o) < spawn_cooldown_lo

\* some obstacle is on its last stretch and can leave within the frames
\* still explored
LeavingDue ==
    \E i \in DOMAIN obstacles :
       /\ LastStretch(obstacles[i])
       /\ StepsToLeave(obstacles[i]) <= FrameLimit - ticks

\* no obstacle of the list is on its last stretch
NoneLeaving == \A i \in DOMAIN obstacles : ~LastStretch(obstacles[i])

\* C16: no obstacle stays in the list for ever.  A running update that detects
\* no collision moves every obstacle it keeps one step down, so an obstacle
\* that is not cleared by a restart comes to its last stretch; and whenever an
\* obstacle is on its last stretch with enough frames left to explore, the
\* list is later without it (it scrolled past the bottom edge, or a restart
\* cleared the list), unless the game stays over for ever without a restart.
C16_ObstacleLifetime ==
    /\ [](LeavingDue => (<>NoneLeaving \/ <>[]game_over))
    /\ [][(pc = "update" /\ ~game_over /\ ~game_over') =>
             \A j \in DOMAIN obstacles' :
                \/ obstacles'[j].y = -obstacle_height
                \/ \E i \in DOMAIN obstacles :
                      obstacles'[j] = Car_update(obstacles[i], 0, obstacle_speed)]_vars

\* a game that was never restarted has lost its first obstacle to the bottom
\* edge
C16_Witness ==
    /\ pc = "loop" /\ ~game_over /\ ~Restarted
    /\ obstacles = <<>>
    /\ ticks > spawn_cooldown_hi

\* the bounding box of the car c is exactly its centre less half its size
RectDerived(c) ==
    /\ XScale * c.rect.x = c.x - XScale * (c.width \div 2)
    /\ c.rect.y = c.y - c.height \div 2
    /\ c.rect.w = c.width
    /\ c.rect.h = c.height

\* C19 (as claimed): in every state the player and every obstacle have
\* rect.x = x - width // 2, rect.y = y - height // 2 and a rect as wide and as
\* high as the car.
C19_RectDerived ==
    /\ RectDerived(player_car)
    /\ \A i \in DOMAIN obstacles : RectDerived(obstacles[i])

\* the 1-based index of the frame in which the spawn timer will reach zero
NextSpawn == ticks + spawn_timer

\* C17: the frames and lanes of the spawns are a function of the random draws
\* alone.  In a game with no collision and no restart the first spawn is due
\* at the frame whose index is the delay drawn at construction; a frame
\* creates an obstacle exactly when its index is the frame the spawn is due
\* at; the obstacle stands in the lane drawn; and the next spawn is then due
\* the drawn delay later, whatever keys and events the frames were given: so
\* the nth spawn is at the frame whose index is the sum of the first n delays
\* drawn.
C17_SpawnSchedule ==
    /\ [](ticks = 0 => NextSpawn \in SpawnDelays)
    /\ []((~Restarted /\ ~game_over) => ticks < NextSpawn)
    /\ [][(pc = "update" /\ ~Restarted /\ ~game_over /\ ~game_over') =>
             /\ CreatedCount = (IF ticks' = NextSpawn THEN 1 ELSE 0)
             /\ CreatedCount = 0 => NextSpawn' = NextSpawn
             /\ CreatedCount = 1 =>
                   \A k \in KeyStates : \A lane \in Lanes : \A delay \in SpawnDelays :
                      UpdateOn(k, lane, delay) =>
                         /\ NextSpawn' = NextSpawn + delay
                         /\ 2 * obstacles'[Len(obstacles')].x
                               = LaneLeft(lane) + LaneLeft(lane + 1)]_vars

\* the second spawn of a game with no collision and no restart
C17_Witness ==
    /\ pc = "loop" /\ ~Restarted /\ ~game_over
    /\ Len(obstacles) = 2
    /\ obstacles[2].y = -obstacle_height
    /\ ticks = 2 * spawn_cooldown_lo

====
